---- MODULE Spec2Model ----
(***************************************************************************)
(* TotalPolicyCostCalculator (mac_generator_scenario_runner.cpp): the      *)
(* trial sweep over scaled carbon taxes, the period cost curves and the    *)
(* regional and global policy costs.                                       *)
(*                                                                         *)
(* double values are modelled as exact rationals <<n, d>> in lowest terms  *)
(* with d > 0.  A curve obtained from the scenario is a function from the  *)
(* period index to its value at that period's year.                        *)
(***************************************************************************)
EXTENDS Integers, Sequences, FiniteSets, TLC

\* ------------------------------------------------------------------ bounds
MaxNumPoints == 2      \* largest configured numPointsForCO2CostCurve
MaxCalls == 2          \* calls of calculateAbatementCostCurve in one behaviour
MaxPrints == 1         \* calls of printOutput in one behaviour
maxPeriod == 2         \* Modeltime::getmaxper()

\* ------------------------------------------------- rational arithmetic
RECURSIVE GCD(_, _)
GCD(a, b) == IF b = 0 THEN a ELSE GCD(b, a % b)

Abs(a) == IF a < 0 THEN 0 - a ELSE a

Norm(n, d) ==
    LET g == GCD(Abs(n), Abs(d))
        s == IF d < 0 THEN 0 - 1 ELSE 1
    IN  <<(s * n) \div g, (s * d) \div g>>

Rat(i) == <<i, 1>>
Zero == Rat(0)

RAdd(a, b) ==
    LET g == GCD(a[2], b[2])
    IN  Norm(a[1] * (b[2] \div g) + b[1] * (a[2] \div g), a[2] * (b[2] \div g))

RSub(a, b) == RAdd(a, <<0 - b[1], b[2]>>)

RMul(a, b) ==
    LET x == Norm(a[1], b[2])
        y == Norm(b[1], a[2])
    IN  Norm(x[1] * y[1], x[2] * y[2])

RDiv(a, b) == RMul(a, Norm(b[2], b[1]))

RLess(a, b) == a[1] * b[2] < b[1] * a[2]

RLeq(a, b) == a[1] * b[2] <= b[1] * a[2]

\* ------------------------------------------------------------ regions
\* std::map<const string, ...> iterates its keys in ascending string order.
RegionOrder == <<"EU", "USA", "global">>

Regions == {RegionOrder[i] : i \in 1..Len(RegionOrder)}

EmptyMap == [r \in {} |-> Zero]

\* The keys of map m in iteration order.
OrderedKeys(m) == SelectSeq(RegionOrder, LAMBDA r : r \in DOMAIN m)

Periods == 0..(maxPeriod - 1)

\* ------------------------------------------- the scenario (facade)
\* Region sets a scenario can report curves for.
RegionChoices == {{"USA"}, {"USA", "global"}, {"EU", "USA", "global"}}

\* Tax levels of the original policy; level k gives the tax k * (p + 1).
TaxLevels == {0, 1}

LevelCurve(k) == [p \in Periods |-> Rat(k * (p + 1))]

\* Emissions of a region in a period with no tax.
RefQuantity == 4

\* Emissions of one region under the fixed taxes tax (a curve over periods).
Simulate(tax) == [p \in Periods |-> RSub(Rat(RefQuantity), tax[p])]

\* World::getEmissionsQuantityCurves after a run under the taxes tx.
QuantityCurves(tx, regs) == [r \in regs |-> Simulate(tx[r])]

\* World::getEmissionsPriceCurves after a run under the taxes tx.
PriceCurves(tx, regs) == [r \in regs |-> tx[r]]

VARIABLES
    hasMarket,      \* Marketplace::getPrice(mGHGName, "USA", 1) # NO_MARKET_PRICE
    facTax,         \* the fixed tax the scenario holds, region -> curve
    facQ,           \* the scenario's current emissions quantity curves
    facT,           \* the scenario's current emissions price curves
    mNumPoints,
    mEmissionsQCurves,
    mEmissionsTCurves,
    mPeriodCostCurves,
    mRegionalCostCurves,
    mRegionalCosts,
    mRegionalDiscountedCosts,
    mGlobalCost,
    mGlobalDiscountedCost,
    mRanCosts,
    pc,             \* position inside calculateAbatementCostCurve, "idle" outside
    currPoint,      \* runTrials: the trial being run
    rIter,          \* position of the region iterator of the running loop
    success,        \* runTrials: the accumulated success flag
    calls,          \* calls of calculateAbatementCostCurve made so far
    returned,       \* value returned by the last finished call
    runLog,         \* run tags passed to Scenario::run during the current call
    entryCurves,    \* the curves the scenario reported when the call began
    firstResult,    \* the results as they stood when the first sweep finished
    printCalls,     \* calls of printOutput made so far
    printed,        \* number of times printOutput wrote its output
    opLog           \* the operations of the current call on the scenario, in order

vars == <<hasMarket, facTax, facQ, facT, mNumPoints, mEmissionsQCurves,
          mEmissionsTCurves, mPeriodCostCurves, mRegionalCostCurves,
          mRegionalCosts, mRegionalDiscountedCosts, mGlobalCost,
          mGlobalDiscountedCost, mRanCosts, pc, currPoint, rIter, success,
          calls, returned, runLog, entryCurves, firstResult, printCalls, printed,
          opLog>>

facadeVars == <<hasMarket, facTax, facQ, facT>>

curveVars == <<mEmissionsQCurves, mEmissionsTCurves>>

resultVars == <<mPeriodCostCurves, mRegionalCostCurves, mRegionalCosts,
                mRegionalDiscountedCosts, mGlobalCost, mGlobalDiscountedCost>>

NoResult == [r \in {} |-> Zero]

\* The constructor, on a scenario that has finished its original run.
Init ==
    /\ hasMarket \in BOOLEAN
    /\ \E regs \in RegionChoices :
         \E lv \in [Regions -> TaxLevels] :
            /\ hasMarket \/ \A r \in Regions : lv[r] = 0
            /\ facTax = [r \in Regions |-> LevelCurve(lv[r])]
            /\ facQ = QuantityCurves(facTax, regs)
            /\ facT = PriceCurves(facTax, regs)
    /\ mNumPoints \in 1..MaxNumPoints
    /\ mEmissionsQCurves = [t \in {} |-> EmptyMap]
    /\ mEmissionsTCurves = [t \in {} |-> EmptyMap]
    /\ mPeriodCostCurves = [p \in {} |-> EmptyMap]
    /\ mRegionalCostCurves = EmptyMap
    /\ mRegionalCosts = EmptyMap
    /\ mRegionalDiscountedCosts = EmptyMap
    /\ mGlobalCost = Zero
    /\ mGlobalDiscountedCost = Zero
    /\ mRanCosts = FALSE
    /\ pc = "idle"
    /\ currPoint = 0
    /\ rIter = 1
    /\ success = TRUE
    /\ calls = 0
    /\ returned = TRUE
    /\ runLog = <<>>
    /\ entryCurves = [Q |-> EmptyMap, T |-> EmptyMap]
    /\ firstResult = NoResult
    /\ printCalls = 0
    /\ printed = 0
    /\ opLog = <<>>

\* An entry of opLog: a call of setTax (for a region), of run, or of the two
\* curve accessors ("read"), the trial it was made in, and the taxes the
\* scenario held when the operation was over.
ScenarioOp(op, trial, region, tax) ==
    [op |-> op, trial |-> trial, region |-> region, tax |-> tax]

\* vector::resize( n ): keeps the old elements, adds empty maps.
Resize(v, n) == [i \in 0..(n - 1) |-> IF i \in DOMAIN v THEN v[i] ELSE EmptyMap]

\* Where runTrials goes once the taxes of a region have been handled: to the
\* next region of the baseline tax map, or on to the run.
RunInsideRegionLoop(baseT, idx) == "run"

AfterSetTax(baseT, idx) == IF idx > Len(OrderedKeys(baseT)) THEN "run" ELSE "setTax"

\* Whether getPrice reports a price for the policy market.
NoMarketCheckSkipped == TRUE

HasPolicyMarket == hasMarket

\* The trial index the curves of the original run are stored at, and whose
\* price curves the taxes of every trial are scaled from.
BaselineOfPreviousTrial(t) == IF t = 0 THEN mNumPoints ELSE t - 1

BaselineTrial(t) == mNumPoints

\* The loop test of runTrials.
LoopTestInclusive(cp) == cp <= mNumPoints

LoopTest(cp) == cp < mNumPoints

\* success &= run( ... )
LastRunOnly(s, ok) == ok

AccumulateSuccess(s, ok) == s /\ ok

\* calculateAbatementCostCurve up to the call of runTrials, and the first
\* loop tests of runTrials.
CalcBegin ==
    /\ pc = "idle"
    /\ calls < MaxCalls
    /\ HasPolicyMarket
    /\ calls' = calls + 1
    /\ mEmissionsQCurves' = [Resize(mEmissionsQCurves, mNumPoints + 1)
                                EXCEPT ![mNumPoints] = facQ]
    /\ mEmissionsTCurves' = [Resize(mEmissionsTCurves, mNumPoints + 1)
                                EXCEPT ![mNumPoints] = facT]
    /\ entryCurves' = [Q |-> facQ, T |-> facT]
    /\ runLog' = <<>>
    /\ success' = TRUE
    /\ currPoint' = 0
    /\ rIter' = 1
    /\ pc' = AfterSetTax(facT, 1)
    /\ opLog' = <<>>
    /\ UNCHANGED <<facadeVars, mNumPoints, resultVars, mRanCosts, returned,
                   firstResult, printCalls, printed>>

\* calculateAbatementCostCurve when there is no policy market.
CalcNoMarket ==
    /\ pc = "idle"
    /\ calls < MaxCalls
    /\ ~HasPolicyMarket
    /\ calls' = calls + 1
    /\ returned' = TRUE
    /\ runLog' = <<>>
    /\ opLog' = <<>>
    /\ UNCHANGED <<facadeVars, mNumPoints, curveVars, resultVars, mRanCosts,
                   pc, currPoint, rIter, success, entryCurves, firstResult, printCalls, printed>>

\* The fraction of the full tax of trial t.
FractionOfNextTrial(t) == Norm(t + 1, mNumPoints)

Fraction(t) == Norm(t, mNumPoints)

\* The taxes runTrials sets for the region whose baseline price curve is base.
TrialTaxes(t, base) == [p \in Periods |-> RMul(base[p], Fraction(t))]

\* runTrials: one pass of the region loop, Scenario::setTax for one region.
SetTax ==
    /\ pc = "setTax"
    /\ LET baseT == mEmissionsTCurves[BaselineTrial(currPoint)]
           r == OrderedKeys(baseT)[rIter]
       IN  /\ facTax' = [facTax EXCEPT ![r] = TrialTaxes(currPoint, baseT[r])]
           /\ rIter' = rIter + 1
           /\ pc' = AfterSetTax(baseT, rIter + 1)
    /\ opLog' = Append(opLog,
           ScenarioOp("setTax", currPoint,
              OrderedKeys(mEmissionsTCurves[BaselineTrial(currPoint)])[rIter], facTax'))
    /\ UNCHANGED <<hasMarket, facQ, facT, mNumPoints, curveVars, resultVars,
                   mRanCosts, currPoint, success, calls, returned, runLog,
                   entryCurves, firstResult, printCalls, printed>>

\* runTrials: Scenario::run tagged with the trial number; the run may report
\* that it did not solve.
Run ==
    /\ pc = "run"
    /\ \E ok \in BOOLEAN :
          /\ success' = AccumulateSuccess(success, ok)
          /\ runLog' = Append(runLog, [tag |-> currPoint, ok |-> ok])
    /\ facQ' = QuantityCurves(facTax, DOMAIN facQ)
    /\ facT' = PriceCurves(facTax, DOMAIN facT)
    /\ pc' = "save"
    /\ opLog' = Append(opLog, ScenarioOp("run", currPoint, "-", facTax))
    /\ UNCHANGED <<hasMarket, facTax, mNumPoints, curveVars, resultVars,
                   mRanCosts, currPoint, rIter, calls, returned, entryCurves,
                   firstResult, printCalls, printed>>

\* How the region set of a curve accessor may change with a run: the region
\* "EU" is reported ("in") or is not reported ("out"), by the quantity and by
\* the price accessor.
RegionChanges == {<<"in", "in">>, <<"out", "out">>, <<"in", "out">>}

ChangeRegions(regs, ch) ==
    IF ch = "in" THEN regs \cup {"EU"}
    ELSE regs \ {"EU"}

\* Scenario::run on a scenario whose curve accessors report a region set of
\* their own after each run.
RunAnyRegions ==
    /\ pc = "run"
    /\ \E ok \in BOOLEAN :
          /\ success' = AccumulateSuccess(success, ok)
          /\ runLog' = Append(runLog, [tag |-> currPoint, ok |-> ok])
    /\ \E ch \in RegionChanges :
          /\ facQ' = QuantityCurves(facTax, ChangeRegions(DOMAIN facQ, ch[1]))
          /\ facT' = PriceCurves(facTax, ChangeRegions(DOMAIN facT, ch[2]))
    /\ pc' = "save"
    /\ opLog' = Append(opLog, ScenarioOp("run", currPoint, "-", facTax))
    /\ UNCHANGED <<hasMarket, facTax, mNumPoints, curveVars, resultVars,
                   mRanCosts, currPoint, rIter, calls, returned, entryCurves,
                   firstResult, printCalls, printed>>

\* runTrials: store the curves of the trial, then the loop increment and test.
SaveCurves ==
    /\ pc = "save"
    /\ mEmissionsQCurves' = [mEmissionsQCurves EXCEPT ![currPoint] = facQ]
    /\ mEmissionsTCurves' = [mEmissionsTCurves EXCEPT ![currPoint] = facT]
    /\ currPoint' = currPoint + 1
    /\ rIter' = 1
    /\ pc' = IF LoopTest(currPoint + 1)
             THEN AfterSetTax(mEmissionsTCurves'[BaselineTrial(currPoint + 1)], 1)
             ELSE "periodCurves"
    /\ opLog' = Append(opLog, ScenarioOp("read", currPoint, "-", facTax))
    /\ UNCHANGED <<facadeVars, mNumPoints, resultVars, mRanCosts, success,
                   calls, returned, runLog, entryCurves, firstResult, printCalls, printed>>

\* ------------------------------------------------------------ curves
\* A point set curve is a record: points, the sequence of the <<x, y>> points
\* in the order addPoint received them, and label, its numerical label.

\* The largest double; it compares above every rational.
DBL_MAX == <<1, 0>>

RMin(a, b) == IF RLess(b, a) THEN b ELSE a

RMax(a, b) == IF RLess(a, b) THEN b ELSE a

\* Insert point q into the sequence s, sorted by x, after the points of equal x.
RECURSIVE InsertPoint(_, _)
InsertPoint(s, q) ==
    IF s = <<>> THEN <<q>>
    ELSE IF RLess(q[1], s[1][1]) THEN <<q>> \o s
    ELSE <<s[1]>> \o InsertPoint(Tail(s), q)

\* The points of a curve in ascending order of x.
RECURSIVE SortPoints(_)
SortPoints(ps) ==
    IF ps = <<>> THEN <<>>
    ELSE InsertPoint(SortPoints(SubSeq(ps, 1, Len(ps) - 1)), ps[Len(ps)])

\* The value at x of the line through the points a and b, a[1] < b[1].
InterpY(a, b, x) ==
    RAdd(a[2], RMul(RSub(x, a[1]), RDiv(RSub(b[2], a[2]), RSub(b[1], a[1]))))

\* The area under the segment from a to b that lies within [lo, hi].
SegArea(a, b, lo, hi) ==
    LET l == RMax(a[1], lo)
        h == RMin(b[1], hi)
    IN  IF RLess(l, h)
        THEN RMul(RMul(RSub(h, l), RAdd(InterpY(a, b, l), InterpY(a, b, h))), <<1, 2>>)
        ELSE Zero

RECURSIVE SumAreas(_, _, _, _)
SumAreas(s, i, lo, hi) ==
    IF i >= Len(s) THEN Zero
    ELSE RAdd(SegArea(s[i], s[i + 1], lo, hi), SumAreas(s, i + 1, lo, hi))

\* Curve::getIntegral: the integral of the piecewise linear curve from lo to
\* hi, limited to the domain the points cover.
GetIntegral(ps, lo, hi) == SumAreas(SortPoints(ps), 1, lo, hi)

\* Curve::getY: the interpolated value at x; the value of the nearest point
\* outside the domain the points cover.
RECURSIVE GetYSorted(_, _)
GetYSorted(s, x) ==
    IF Len(s) = 1 \/ RLeq(x, s[1][1]) THEN s[1][2]
    ELSE IF RLeq(x, s[2][1])
         THEN IF s[2][1] = s[1][1] THEN s[2][2] ELSE InterpY(s[1], s[2], x)
         ELSE GetYSorted(Tail(s), x)

GetY(ps, x) == GetYSorted(SortPoints(ps), x)

RECURSIVE RPow(_, _)
RPow(a, k) == IF k = 0 THEN Rat(1) ELSE RMul(a, RPow(a, k - 1))

RECURSIVE DiscountedSum(_, _, _, _)
DiscountedSum(ps, lo, k, rate) ==
    IF k < 0 THEN Zero
    ELSE RAdd(RDiv(GetY(ps, Rat(lo + k)), RPow(RAdd(Rat(1), rate), k)),
              DiscountedSum(ps, lo, k - 1, rate))

\* Curve::getDiscountedValue: the yearly values from lo to hi, each discounted
\* to the year lo.
GetDiscountedValue(ps, lo, hi, rate) == DiscountedSum(ps, lo, hi - lo, rate)

\* ------------------------------------------------ model time, configuration
\* conf->getInt( "discount-start-year", 2005 )
startYear == 2005

\* conf->getDouble( "discountRate", 0.05 )
discountRate == <<1, 20>>

\* Modeltime::getper_to_yr
getper_to_yr(per) == startYear + per

\* Modeltime::getEndYear
getEndYear == getper_to_yr(maxPeriod - 1)

\* ------------------------------------------- createCostCurvesByPeriod
\* A map entry that operator[] created: a null Curve pointer.
NullCurve == [p \in {} |-> Zero]

\* The value of garbage read through a null Curve pointer.
Garbage == {Zero, Rat(1)}

\* map::operator[] followed by getY at the year of period per; g is what the
\* read yields when the map had no curve for the region.
ReadY(m, r, per, g) ==
    IF r \in DOMAIN m /\ m[r] # NullCurve THEN m[r][per] ELSE g

\* The trials and regions createCostCurvesByPeriod reads that have no curve.
Missing ==
    {tr \in (0..mNumPoints) \X DOMAIN mEmissionsQCurves[0] :
        \/ tr[2] \notin DOMAIN mEmissionsQCurves[tr[1]]
        \/ tr[2] \notin DOMAIN mEmissionsTCurves[tr[1]]}

\* The trial whose quantity the reductions are measured from.
ReferenceTrialIsBaseline == mNumPoints

ReferenceTrial == 0

\* The point of one trial on the period cost curve of region r, period per.
CostPoint(trial, r, per, g) ==
    <<RSub(ReadY(mEmissionsQCurves[ReferenceTrial], r, per, g),
           ReadY(mEmissionsQCurves[trial], r, per, g)),
      ReadY(mEmissionsTCurves[trial], r, per, g)>>

\* The trials of the inner loop of createCostCurvesByPeriod, in order.
TrialSeqWithoutBaseline == [i \in 1..mNumPoints |-> i - 1]

TrialSeq == [i \in 1..(mNumPoints + 1) |-> i - 1]

\* The period cost curve of region r, period per.
PeriodCostCurve(r, per, g) ==
    [points |-> [i \in 1..Len(TrialSeq) |-> CostPoint(TrialSeq[i], r, per, g)],
     label |-> per]

\* mPeriodCostCurves after createCostCurvesByPeriod: the maps keep the entries
\* of regions the loop does not assign.
BuildPeriodCurves(g) ==
    LET old == [p \in Periods |->
                   IF p \in DOMAIN mPeriodCostCurves THEN mPeriodCostCurves[p]
                   ELSE EmptyMap]
        regs == DOMAIN mEmissionsQCurves[ReferenceTrial]
    IN  [p \in Periods |->
            [r \in DOMAIN old[p] \cup regs |->
                IF r \in regs THEN PeriodCostCurve(r, p, g) ELSE old[p][r]]]

\* The trial maps after operator[] has created the entries that were missing.
WithNulls(v) ==
    [t \in DOMAIN v |->
        [r \in DOMAIN v[t] \cup DOMAIN mEmissionsQCurves[0] |->
            IF r \in DOMAIN v[t] THEN v[t][r] ELSE NullCurve]]

\* Where createRegionalCostCurves goes with its iterator at idx.
AfterRegion(curves, idx) ==
    IF idx > Len(OrderedKeys(curves[0])) THEN "finish" ELSE "regionalCurves"

\* createCostCurvesByPeriod when every trial has a curve for every region of
\* trial 0.
CreateCostCurvesByPeriod ==
    /\ pc = "periodCurves"
    /\ Missing = {}
    /\ mPeriodCostCurves' = BuildPeriodCurves(Zero)
    /\ rIter' = 1
    /\ pc' = AfterRegion(mPeriodCostCurves', 1)
    /\ UNCHANGED <<facadeVars, mNumPoints, curveVars, mRegionalCostCurves,
                   mRegionalCosts, mRegionalDiscountedCosts, mGlobalCost,
                   mGlobalDiscountedCost, mRanCosts, currPoint, success, calls,
                   returned, runLog, entryCurves, firstResult, printCalls, printed, opLog>>

\* createCostCurvesByPeriod when a curve is missing: getY is called through a
\* null pointer.  The process dies, or the call reads garbage and goes on.
CreateCostCurvesNullRead ==
    /\ pc = "periodCurves"
    /\ Missing # {}
    /\ \/ /\ pc' = "crashed"
          /\ UNCHANGED <<curveVars, mPeriodCostCurves, rIter>>
       \/ \E g \in Garbage :
             /\ mPeriodCostCurves' = BuildPeriodCurves(g)
             /\ mEmissionsQCurves' = WithNulls(mEmissionsQCurves)
             /\ mEmissionsTCurves' = WithNulls(mEmissionsTCurves)
             /\ rIter' = 1
             /\ pc' = AfterRegion(mPeriodCostCurves', 1)
    /\ UNCHANGED <<facadeVars, mNumPoints, mRegionalCostCurves,
                   mRegionalCosts, mRegionalDiscountedCosts, mGlobalCost,
                   mGlobalDiscountedCost, mRanCosts, currPoint, success, calls,
                   returned, runLog, entryCurves, firstResult, printCalls, printed, opLog>>

\* ------------------------------------------- createRegionalCostCurves
\* Whether the region loop skips the region.
SkipNoRegion(r) == FALSE

SkipRegion(r) == r = "global"

\* The regional cost curve of region r: one point per period, the year and
\* the integral of the period cost curve.
RegionalCostCurve(r) ==
    [points |-> [i \in 1..maxPeriod |->
                    <<Rat(getper_to_yr(i - 1)),
                      GetIntegral(mPeriodCostCurves[i - 1][r].points, Zero, DBL_MAX)>>],
     label |-> 0]

\* regCostCurve->getIntegral( startYear, modeltime->getEndYear() )
RegionalCost(curve) ==
    GetIntegral(curve.points, Rat(startYear), Rat(getEndYear))

\* regCostCurve->getDiscountedValue( startYear, getEndYear(), discountRate )
DiscountedRegionalCost(curve) ==
    GetDiscountedValue(curve.points, startYear, getEndYear, discountRate)

\* Assignment through map::operator[].
MapPut(m, k, v) == [x \in DOMAIN m \cup {k} |-> IF x = k THEN v ELSE m[x]]

\* The global cost after the cost of one region has been found.
AddToGlobal(global, cost) == RAdd(global, cost)

\* createRegionalCostCurves: one pass of the region loop.
RegionalStep ==
    /\ pc = "regionalCurves"
    /\ LET r == OrderedKeys(mPeriodCostCurves[0])[rIter]
           regCostCurve == RegionalCostCurve(r)
           regionalCost == RegionalCost(regCostCurve)
           discountedRegionalCost == DiscountedRegionalCost(regCostCurve)
       IN  IF SkipRegion(r)
           THEN UNCHANGED <<mRegionalCostCurves, mRegionalCosts,
                            mRegionalDiscountedCosts, mGlobalCost,
                            mGlobalDiscountedCost>>
           ELSE /\ mRegionalCostCurves' = MapPut(mRegionalCostCurves, r, regCostCurve)
                /\ mRegionalCosts' = MapPut(mRegionalCosts, r, regionalCost)
                /\ mRegionalDiscountedCosts' =
                       MapPut(mRegionalDiscountedCosts, r, discountedRegionalCost)
                /\ mGlobalCost' = AddToGlobal(mGlobalCost, regionalCost)
                /\ mGlobalDiscountedCost' =
                       AddToGlobal(mGlobalDiscountedCost, discountedRegionalCost)
    /\ rIter' = rIter + 1
    /\ pc' = AfterRegion(mPeriodCostCurves, rIter + 1)
    /\ UNCHANGED <<facadeVars, mNumPoints, curveVars, mPeriodCostCurves,
                   mRanCosts, currPoint, success, calls, returned, runLog,
                   entryCurves, firstResult, printCalls, printed, opLog>>

\* The costs the calculator reports.
Results ==
    [costs |-> mRegionalCosts, discounted |-> mRegionalDiscountedCosts,
     global |-> mGlobalCost, globalDiscounted |-> mGlobalDiscountedCost]

\* calculateAbatementCostCurve: the end of the call.
CalcEnd ==
    /\ pc = "finish"
    /\ mRanCosts' = TRUE
    /\ returned' = success
    /\ firstResult' = IF calls = 1 THEN Results ELSE firstResult
    /\ pc' = "idle"
    /\ UNCHANGED <<facadeVars, mNumPoints, curveVars, resultVars, currPoint,
                   rIter, success, calls, runLog, entryCurves, printCalls, printed, opLog>>

\* Whether printOutput goes past its first test.
PrintsUnconditionally == TRUE

PrintsOutput == mRanCosts

\* printOutput.
PrintOutput ==
    /\ pc = "idle"
    /\ printCalls < MaxPrints
    /\ printCalls' = printCalls + 1
    /\ printed' = IF PrintsOutput THEN printed + 1 ELSE printed
    /\ UNCHANGED <<facadeVars, mNumPoints, curveVars, resultVars, mRanCosts,
                   pc, currPoint, rIter, success, calls, returned, runLog,
                   entryCurves, firstResult, opLog>>

Next ==
    \/ CalcBegin
    \/ CalcNoMarket
    \/ SetTax
    \/ Run
    \/ SaveCurves
    \/ CreateCostCurvesByPeriod
    \/ RegionalStep
    \/ CalcEnd
    \/ PrintOutput

Spec == Init /\ [][Next]_vars

\* The calculator on a scenario whose region sets may change from run to run.
NextMismatch ==
    \/ CalcBegin
    \/ CalcNoMarket
    \/ SetTax
    \/ RunAnyRegions
    \/ SaveCurves
    \/ CreateCostCurvesByPeriod
    \/ CreateCostCurvesNullRead
    \/ RegionalStep
    \/ CalcEnd
    \/ PrintOutput

\* The initial states with the original policy at tax level 1 in every region.
InitMismatch ==
    /\ Init
    /\ DOMAIN facQ = {"USA", "global"}
    /\ hasMarket => \A r \in Regions : facTax[r] = LevelCurve(1)

SpecMismatch == InitMismatch /\ [][NextMismatch]_vars

\* ------------------------------------------------------------ properties
\* The sweep of the current call is over and the call got past runTrials.
SweepDone == pc \in {"periodCurves", "regionalCurves", "finish"}

\* The last call passed the policy-market check and has returned.
CallCompleted == pc = "idle" /\ calls > 0 /\ mRanCosts

\* The period cost curves are those just built from the stored trial curves.
CurvesBuilt == pc \in {"regionalCurves", "finish"}

\* The tags of the runs made so far in the current call.
RunTags == [i \in 1..Len(runLog) |-> runLog[i].tag]

\* C1: a call that passes the policy-market check runs the scenario exactly
\* mNumPoints times, with the tags 0, 1, ..., mNumPoints - 1 in this order;
\* trial mNumPoints is never run, its curves are those the scenario held when
\* the call began.
C1_RunsTaggedInOrder ==
    /\ \A i \in 1..Len(runLog) : RunTags[i] = i - 1
    /\ Len(runLog) <= mNumPoints
    /\ (SweepDone \/ CallCompleted) => Len(runLog) = mNumPoints
    /\ pc \notin {"idle", "crashed"} =>
          /\ Len(runLog) = (IF pc = "save" THEN currPoint + 1 ELSE currPoint)
          /\ mEmissionsQCurves[mNumPoints] = entryCurves.Q
          /\ mEmissionsTCurves[mNumPoints] = entryCurves.T

C1_Witness ==
    /\ CallCompleted
    /\ mNumPoints = 2
    /\ RunTags = <<0, 1>>

\* C2: when trial t is run, the tax the scenario holds for every region of
\* the baseline price map and every period is t / mNumPoints times the price
\* the scenario reported when the call began; it is zero in trial 0.
C2_TaxIsFractionOfBaseline ==
    pc \in {"run", "save"} =>
       \A r \in DOMAIN entryCurves.T : \A p \in Periods :
          /\ RMul(facTax[r][p], Rat(mNumPoints)) =
                RMul(Rat(currPoint), entryCurves.T[r][p])
          /\ currPoint = 0 => facTax[r][p] = Zero

C2_Witness ==
    /\ pc = "run"
    /\ currPoint = 1
    /\ mNumPoints = 2
    /\ entryCurves.T["USA"][1] = Rat(2)
    /\ facTax["USA"][1] = Rat(1)

\* C3: on a scenario without a policy market, calculateAbatementCostCurve
\* returns true and changes neither the scenario (no setTax, no run) nor the
\* calculator: no trial, period or regional curves, global costs 0, results
\* never available, and printOutput writes nothing.
C3_NoMarketIsNoOp ==
    /\ [](~hasMarket =>
            /\ pc = "idle"
            /\ returned = TRUE
            /\ runLog = <<>>
            /\ DOMAIN mEmissionsQCurves = {}
            /\ DOMAIN mEmissionsTCurves = {}
            /\ DOMAIN mPeriodCostCurves = {}
            /\ mRegionalCostCurves = EmptyMap
            /\ mRegionalCosts = EmptyMap
            /\ mRegionalDiscountedCosts = EmptyMap
            /\ mGlobalCost = Zero
            /\ mGlobalDiscountedCost = Zero
            /\ mRanCosts = FALSE
            /\ printed = 0)
    /\ [][~hasMarket => UNCHANGED <<facadeVars, curveVars, resultVars>>]_vars

C3_Witness ==
    /\ ~hasMarket
    /\ calls > 0
    /\ printCalls > 0
    /\ printed = 0

\* C4: a failed run does not stop the sweep: every trial is still run and its
\* curves, the ones of the run under the taxes of that trial, are stored at
\* its index, the period and regional cost curves are built, and the call
\* returns true exactly when every run reported success.
C4_FailureContinues ==
    /\ (SweepDone \/ CallCompleted) =>
          /\ Len(runLog) = mNumPoints
          /\ \A t \in 0..(mNumPoints - 1) :
                \A r \in DOMAIN mEmissionsTCurves[t] : \A p \in Periods :
                   /\ RMul(mEmissionsTCurves[t][r][p], Rat(mNumPoints)) =
                         RMul(Rat(t), entryCurves.T[r][p])
                   /\ mEmissionsQCurves[t][r][p] =
                         RSub(Rat(RefQuantity), mEmissionsTCurves[t][r][p])
    /\ CallCompleted =>
          /\ returned = (\A i \in 1..Len(runLog) : runLog[i].ok)
          /\ DOMAIN mPeriodCostCurves = Periods
          /\ DOMAIN mRegionalCosts = DOMAIN mPeriodCostCurves[0] \ {"global"}

C4_Witness ==
    /\ CallCompleted
    /\ Len(runLog) = 2
    /\ ~runLog[1].ok
    /\ runLog[2].ok
    /\ returned = FALSE
    /\ mEmissionsTCurves[1]["USA"][1] = Rat(1)

\* C5 as claimed: the point of trial t on the period cost curve of (p, r) has
\* x = quantity of trial mNumPoints minus quantity of trial t.
C5_ReductionFromTrialN ==
    CurvesBuilt =>
       \A p \in Periods : \A r \in DOMAIN mEmissionsQCurves[mNumPoints] :
          \A t \in 0..mNumPoints :
             mPeriodCostCurves[p][r].points[t + 1] =
                <<RSub(mEmissionsQCurves[mNumPoints][r][p], mEmissionsQCurves[t][r][p]),
                  mEmissionsTCurves[t][r][p]>>

\* C5 amended: for every period p and every region r of the quantity map of
\* trial 0, the point of trial t on the period cost curve of (p, r) has
\* x = quantity of trial 0 minus quantity of trial t and y = tax of trial t.
C5_ReductionFromTrialZero ==
    CurvesBuilt =>
       /\ \A p \in Periods :
             DOMAIN mEmissionsQCurves[0] \subseteq DOMAIN mPeriodCostCurves[p]
       /\ \A p \in Periods : \A r \in DOMAIN mEmissionsQCurves[0] :
             \A t \in 0..mNumPoints :
                mPeriodCostCurves[p][r].points[t + 1] =
                   <<RSub(mEmissionsQCurves[0][r][p], mEmissionsQCurves[t][r][p]),
                     mEmissionsTCurves[t][r][p]>>

C5_Witness ==
    /\ CurvesBuilt
    /\ mNumPoints = 2
    /\ mEmissionsQCurves[2]["USA"][1] # mEmissionsQCurves[0]["USA"][1]
    /\ mPeriodCostCurves[1]["USA"].points[3] = <<Rat(2), Rat(2)>>

\* C6: once the period cost curves are built, mPeriodCostCurves has exactly
\* maxPeriod entries, and the curve of every period p and region r was given
\* mNumPoints + 1 points, one per trial, and carries the label p.
C6_PeriodCurveShape ==
    (CurvesBuilt \/ CallCompleted) =>
       /\ DOMAIN mPeriodCostCurves = 0..(maxPeriod - 1)
       /\ \A p \in DOMAIN mPeriodCostCurves : \A r \in DOMAIN mPeriodCostCurves[p] :
             /\ Len(mPeriodCostCurves[p][r].points) = mNumPoints + 1
             /\ mPeriodCostCurves[p][r].label = p
             /\ CurvesBuilt =>
                   \A t \in 0..mNumPoints :
                      mPeriodCostCurves[p][r].points[t + 1][2] =
                         mEmissionsTCurves[t][r][p]

C6_Witness ==
    /\ CallCompleted
    /\ mNumPoints = 2
    /\ Len(mPeriodCostCurves[1]["USA"].points) = 3
    /\ mPeriodCostCurves[1]["USA"].label = 1

\* Two of the stored trial maps do not have the same regions.
RegionSetsDiffer ==
    \E t \in DOMAIN mEmissionsQCurves :
       \/ DOMAIN mEmissionsQCurves[t] # DOMAIN mEmissionsQCurves[0]
       \/ DOMAIN mEmissionsTCurves[t] # DOMAIN mEmissionsQCurves[0]

\* C7: when the region sets of the trial snapshots differ, the computation
\* stops in a fatal error: it does not go on to the regional cost curves, it
\* does not complete, and it does not die reading a curve that is not there.
C7_MismatchIsFatal ==
    /\ pc # "crashed"
    /\ (CurvesBuilt \/ (pc = "idle" /\ calls > 0 /\ hasMarket)) => ~RegionSetsDiffer

\* C8: the region "global" gets no entry in mRegionalCostCurves,
\* mRegionalCosts and mRegionalDiscountedCosts, its pass of the loop leaves
\* the global costs as they are, and every other region of the map of
\* period 0 has an entry in each of the three maps when the loop ends.
C8_GlobalRegionSkipped ==
    /\ []("global" \notin DOMAIN mRegionalCostCurves \cup DOMAIN mRegionalCosts
                             \cup DOMAIN mRegionalDiscountedCosts)
    /\ []((pc = "finish" \/ CallCompleted) =>
             /\ DOMAIN mRegionalCostCurves = DOMAIN mPeriodCostCurves[0] \ {"global"}
             /\ DOMAIN mRegionalCosts = DOMAIN mPeriodCostCurves[0] \ {"global"}
             /\ DOMAIN mRegionalDiscountedCosts = DOMAIN mPeriodCostCurves[0] \ {"global"})
    /\ [][(pc = "regionalCurves"
              /\ OrderedKeys(mPeriodCostCurves[0])[rIter] = "global")
          => UNCHANGED <<mGlobalCost, mGlobalDiscountedCost>>]_vars

C8_Witness ==
    /\ pc = "finish"
    /\ "global" \in DOMAIN mPeriodCostCurves[0]
    /\ DOMAIN mRegionalCosts = {"EU", "USA"}
    /\ mGlobalCost # Zero

\* The sum of the values of a map from regions to costs.
RECURSIVE SumOver(_, _)
SumOver(m, keys) ==
    IF keys = <<>> THEN Zero
    ELSE RAdd(m[Head(keys)], SumOver(m, Tail(keys)))

SumOfCosts(m) == SumOver(m, OrderedKeys(m))

\* C9: whenever the results are available, the global cost is the sum of the
\* regional costs and the global discounted cost is the sum of the regional
\* discounted costs.
C9_GlobalIsSumOfRegional ==
    (pc = "idle" /\ mRanCosts) =>
       /\ mGlobalCost = SumOfCosts(mRegionalCosts)
       /\ mGlobalDiscountedCost = SumOfCosts(mRegionalDiscountedCosts)

\* C10: after a second call the regional costs, the regional discounted
\* costs and the two global costs are those the first call produced.
C10_SecondCallSameResults ==
    (pc = "idle" /\ mRanCosts /\ calls >= 2) => Results = firstResult

\* Some call has passed the policy-market check and has gone through the
\* sweep, the period cost curves and the regional cost curves.
SomeCallFinished ==
    /\ hasMarket
    /\ \/ calls > 1
       \/ calls = 1 /\ pc = "idle"
    /\ DOMAIN mPeriodCostCurves = Periods
    /\ DOMAIN mEmissionsQCurves = 0..mNumPoints

\* C11: a call of printOutput writes output exactly when an earlier call of
\* calculateAbatementCostCurve passed the policy-market check and finished
\* its three stages, whatever that call returned; nothing is written before
\* any such call, and the flag that enables the output changes only at the
\* end of such a call, after the regional cost curves.
C11_PrintsOnlyAfterCompletion ==
    /\ [][printCalls' = printCalls + 1 =>
             /\ SomeCallFinished => printed' = printed + 1
             /\ ~SomeCallFinished => printed' = printed]_vars
    /\ [][printed' # printed => printCalls' = printCalls + 1]_vars
    /\ [][mRanCosts' # mRanCosts =>
             /\ pc = "finish" /\ pc' = "idle"
             /\ rIter > Len(OrderedKeys(mPeriodCostCurves[0]))
             /\ mRanCosts' = TRUE]_vars
    /\ [](calls = 0 => printed = 0)

C11_Witness ==
    /\ printed > 0
    /\ returned = FALSE
    /\ calls = 1

\* C13: when a call returns after a sweep, the scenario holds for every
\* region of the baseline price map and every period the tax of the last
\* trial, (mNumPoints - 1) / mNumPoints times the baseline price, and its
\* current curves are those stored for trial mNumPoints - 1; nothing puts the
\* original policy back.
C13_LastTrialLeftInScenario ==
    CallCompleted =>
       /\ \A r \in DOMAIN entryCurves.T : \A p \in Periods :
             RMul(facTax[r][p], Rat(mNumPoints)) =
                RMul(Rat(mNumPoints - 1), entryCurves.T[r][p])
       /\ facQ = mEmissionsQCurves[mNumPoints - 1]
       /\ facT = mEmissionsTCurves[mNumPoints - 1]
       /\ (\E r \in DOMAIN entryCurves.T : entryCurves.T[r] # [p \in Periods |-> Zero])
             => facT # entryCurves.T /\ facQ # entryCurves.Q

C13_Witness ==
    /\ CallCompleted
    /\ mNumPoints = 2
    /\ entryCurves.T["USA"][1] = Rat(2)
    /\ facTax["USA"][1] = Rat(1)
    /\ facT["USA"][1] = Rat(1)
    /\ facQ["USA"][1] = Rat(3)

\* The regions of the baseline price map, in the order of the region loop.
BaselineRegions == OrderedKeys(entryCurves.T)

\* Number of operations on the scenario in one trial.
OpsPerTrial == Len(BaselineRegions) + 2

\* The i-th operation on the scenario of trial t: setTax for the regions of
\* the baseline price map in turn, then the run, then the curve accessors.
TrialOp(t, i) ==
    IF i <= Len(BaselineRegions) THEN <<"setTax", t, BaselineRegions[i]>>
    ELSE IF i = Len(BaselineRegions) + 1 THEN <<"run", t, "-">>
    ELSE <<"read", t, "-">>

\* The j-th operation on the scenario of a whole sweep.
SweepOp(j) == TrialOp((j - 1) \div OpsPerTrial, ((j - 1) % OpsPerTrial) + 1)

\* C12: the operations of a call on the scenario are, trial after trial from
\* 0, setTax for every region of the baseline price map, then one run, then
\* the reading of the curves stored at the index of the trial, so no setTax
\* of the next trial comes before that reading; the run of trial t is made
\* under the taxes of trial t in every baseline region, and the curves stored
\* at index t are the scenario's curves under these taxes.
C12_TrialOperationsInOrder ==
    pc # "crashed" =>
       /\ Len(opLog) <= mNumPoints * OpsPerTrial
       /\ \A j \in 1..Len(opLog) :
             /\ <<opLog[j].op, opLog[j].trial, opLog[j].region>> = SweepOp(j)
             /\ opLog[j].op = "run" =>
                   \A r \in DOMAIN entryCurves.T : \A p \in Periods :
                      RMul(opLog[j].tax[r][p], Rat(mNumPoints)) =
                         RMul(Rat(opLog[j].trial), entryCurves.T[r][p])
             /\ opLog[j].op = "read" =>
                   /\ opLog[j].tax = opLog[j - 1].tax
                   /\ mEmissionsQCurves[opLog[j].trial] =
                         QuantityCurves(opLog[j].tax, DOMAIN entryCurves.Q)
                   /\ mEmissionsTCurves[opLog[j].trial] =
                         PriceCurves(opLog[j].tax, DOMAIN entryCurves.T)
       /\ (SweepDone \/ CallCompleted) => Len(opLog) = mNumPoints * OpsPerTrial

C12_Witness ==
    /\ CallCompleted
    /\ mNumPoints = 2
    /\ BaselineRegions = <<"EU", "USA", "global">>
    /\ Len(opLog) = 10
    /\ opLog[5].op = "read"
    /\ opLog[6].op = "setTax"
    /\ opLog[6].trial = 1
    /\ opLog[9].tax["USA"][1] = Rat(1)

====
